---- MODULE Spec2Model ----
(***************************************************************************)
(* Configuration resolution of parallel_matrix_formatter                   *)
(* (src/parallel_matrix_formatter/config_loader.py): the ConfigLoader that *)
(* reads a YAML file and the PMF_* environment variables, merges them and  *)
(* builds the frozen Config, and the module-level registry (_config_loader,*)
(* _config) behind get_config_loader / get_config / reset_config.          *)
(*                                                                         *)
(* Python strings are sequences of one-character strings, so that          *)
(* str.lower() and int() are computed character by character.  Python      *)
(* values of the untyped mappings are tagged records (VInt, VStr, VBool).  *)
(* Python objects whose identity matters (ConfigLoader, Config) carry an   *)
(* id drawn from the allocation counter nextId.                            *)
(***************************************************************************)
EXTENDS Integers, Sequences, FiniteSets, TLC

VARIABLES
    env,             \* os.environ restricted to the PMF_* variables
    fs,              \* the file system: path -> file content
    _config_loader,  \* config_loader.py:316
    _config,         \* config_loader.py:317
    nextId,          \* id of the next object to be allocated
    lastOp,          \* the last call: name, argument, outcome
    now,             \* time.time(), in seconds
    managers,        \* the CacheManager objects, in the order of their creation
    threads          \* the threads inside get_config: position and locals

vars == <<env, fs, _config_loader, _config, nextId, lastOp, now, managers, threads>>

\* The clock, the cache managers and the threads: what the registry calls made
\* from the main thread leave alone.
cacheVars == <<now, managers, threads>>

(***************************************************************************)
(* Bounds                                                                  *)
(***************************************************************************)
\* Objects (ConfigLoader, Config) allocated in one behaviour.
MaxObjects == 4
\* CacheManager objects created in one behaviour.
MaxManagers == 2
\* The last second the clock reaches.
MaxTime == 3
\* Threads that call get_config, and the calls each of them makes.
MaxThreads == 2
MaxCalls == 2

(***************************************************************************)
(* Strings                                                                 *)
(***************************************************************************)
UpperChars == <<"A", "B", "C", "D", "E", "F", "G", "H", "I", "J", "K", "L", "M",
                "N", "O", "P", "Q", "R", "S", "T", "U", "V", "W", "X", "Y", "Z">>
LowerChars == <<"a", "b", "c", "d", "e", "f", "g", "h", "i", "j", "k", "l", "m",
                "n", "o", "p", "q", "r", "s", "t", "u", "v", "w", "x", "y", "z">>
DigitChars == <<"0", "1", "2", "3", "4", "5", "6", "7", "8", "9">>

\* str.lower() on one character: an upper-case letter maps to its lower-case
\* letter, every other character to itself.
LowerChar(c) ==
    IF \E i \in 1..Len(UpperChars) : UpperChars[i] = c
    THEN LowerChars[CHOOSE i \in 1..Len(UpperChars) : UpperChars[i] = c]
    ELSE c

\* str.lower()
Lower(s) == [i \in 1..Len(s) |-> LowerChar(s[i])]

\* str.upper() on one character: a lower-case letter maps to its upper-case
\* letter, every other character to itself.
UpperChar(c) ==
    IF \E i \in 1..Len(LowerChars) : LowerChars[i] = c
    THEN UpperChars[CHOOSE i \in 1..Len(LowerChars) : LowerChars[i] = c]
    ELSE c

\* str.upper()
Upper(s) == [i \in 1..Len(s) |-> UpperChar(s[i])]

IsDigit(c) == \E i \in 1..Len(DigitChars) : DigitChars[i] = c
DigitValue(c) == (CHOOSE i \in 1..Len(DigitChars) : DigitChars[i] = c) - 1

\* str.strip() of blanks, as int() applies it to its argument.
RECURSIVE StripLeft(_)
StripLeft(s) ==
    IF s # <<>> /\ Head(s) = " " THEN StripLeft(Tail(s)) ELSE s
RECURSIVE StripRight(_)
StripRight(s) ==
    IF s # <<>> /\ s[Len(s)] = " " THEN StripRight(SubSeq(s, 1, Len(s) - 1)) ELSE s
Strip(s) == StripRight(StripLeft(s))

\* The value of a sequence of decimal digits, most significant first.
RECURSIVE DigitsValue(_)
DigitsValue(s) ==
    IF s = <<>> THEN 0
    ELSE 10 * DigitsValue(SubSeq(s, 1, Len(s) - 1)) + DigitValue(s[Len(s)])

AllDigits(s) == s # <<>> /\ \A i \in 1..Len(s) : IsDigit(s[i])

(***************************************************************************)
(* Python values held by the untyped mappings and by the Config fields     *)
(***************************************************************************)
VInt(n)  == [t |-> "int",  i |-> n, s |-> <<>>, b |-> FALSE]
VStr(x)  == [t |-> "str",  i |-> 0, s |-> x,    b |-> FALSE]
VBool(x) == [t |-> "bool", i |-> 0, s |-> <<>>, b |-> x]

\* The outcome of a call that may raise: status "ok" and a value, or the name
\* of the exception and no value.
Ok(v)     == [status |-> "ok", value |-> v]
Raise(e)  == [status |-> e, value |-> <<>>]

\* {} : the empty dict
EmptyDict == [k \in {} |-> <<>>]

\* dict.update(): d with the items of e written over it
DictUpdate(d, e) ==
    [k \in DOMAIN d \cup DOMAIN e |-> IF k \in DOMAIN e THEN e[k] ELSE d[k]]

\* dict.get(key, default)
DictGet(d, k, default) == IF k \in DOMAIN d THEN d[k] ELSE default

\* d[k] = v
DictSet(d, k, v) == DictUpdate(d, [j \in {k} |-> v])

\* del d[k]
DictDel(d, k) == [j \in DOMAIN d \ {k} |-> d[j]]

\* bool(v) of a value, as "if not v" takes it.
Truthy(v) ==
    CASE v.t = "bool" -> v.b
      [] v.t = "int"  -> v.i # 0
      [] v.t = "str"  -> v.s # <<>>


(***************************************************************************)
(* The frozen dataclasses (config_loader.py:53-110)                        *)
(***************************************************************************)
S_INFO == <<"I", "N", "F", "O">>
S_LOG_FORMAT ==
    <<"%", "(", "a", "s", "c", "t", "i", "m", "e", ")", "s", " ", "-", " ",
      "%", "(", "n", "a", "m", "e", ")", "s", " ", "-", " ",
      "%", "(", "l", "e", "v", "e", "l", "n", "a", "m", "e", ")", "s", " ", "-", " ",
      "%", "(", "m", "e", "s", "s", "a", "g", "e", ")", "s">>
S_json == <<"j", "s", "o", "n">>
S_memory == <<"m", "e", "m", "o", "r", "y">>

\* The fields of each dataclass with their defaults.
LoggingDefaults  == [level |-> VStr(S_INFO), format |-> VStr(S_LOG_FORMAT)]
ParallelDefaults == [workers |-> VInt(4), chunk_size |-> VInt(1000)]
MatrixDefaults   == [max_size |-> VInt(10000), default_precision |-> VInt(2)]
OutputDefaults   == [format |-> VStr(S_json), compression |-> VBool(FALSE)]
CacheDefaults    == [enabled |-> VBool(TRUE), ttl |-> VInt(3600), backend |-> VStr(S_memory)]
DebugDefaults    == [enabled |-> VBool(FALSE), profiling |-> VBool(FALSE)]

\* The annotated type of each field.
LoggingTypes  == [level |-> "str", format |-> "str"]
ParallelTypes == [workers |-> "int", chunk_size |-> "int"]
MatrixTypes   == [max_size |-> "int", default_precision |-> "int"]
OutputTypes   == [format |-> "str", compression |-> "bool"]
CacheTypes    == [enabled |-> "bool", ttl |-> "int", backend |-> "str"]
DebugTypes    == [enabled |-> "bool", profiling |-> "bool"]

\* A mutant of DataclassInit: keyword arguments that name no field are dropped.
DataclassInitLenient(defaults, kwargs) ==
    Ok([k \in DOMAIN defaults |-> IF k \in DOMAIN kwargs THEN kwargs[k] ELSE defaults[k]])

\* The __init__ that @dataclass generates, called as Cls(**kwargs): a keyword
\* that names no field raises TypeError; a field without a keyword takes its
\* default; a value is stored as given (the annotations are not enforced).
DataclassInit(defaults, kwargs) ==
    IF DOMAIN kwargs \subseteq DOMAIN defaults
    THEN Ok(DictUpdate(defaults, kwargs))
    ELSE Raise("TypeError")

LoggingConfig(kwargs)  == DataclassInit(LoggingDefaults, kwargs)
ParallelConfig(kwargs) == DataclassInit(ParallelDefaults, kwargs)
MatrixConfig(kwargs)   == DataclassInit(MatrixDefaults, kwargs)
OutputConfig(kwargs)   == DataclassInit(OutputDefaults, kwargs)
CacheConfig(kwargs)    == DataclassInit(CacheDefaults, kwargs)
DebugConfig(kwargs)    == DataclassInit(DebugDefaults, kwargs)

\* The six sections of Config, in the order of its fields.
SectionNames == <<"logging", "parallel", "matrix", "output", "cache", "debug">>
Sections == {SectionNames[i] : i \in 1..Len(SectionNames)}

SectionDefaults ==
    [logging |-> LoggingDefaults, parallel |-> ParallelDefaults, matrix |-> MatrixDefaults,
     output |-> OutputDefaults, cache |-> CacheDefaults, debug |-> DebugDefaults]
SectionTypes ==
    [logging |-> LoggingTypes, parallel |-> ParallelTypes, matrix |-> MatrixTypes,
     output |-> OutputTypes, cache |-> CacheTypes, debug |-> DebugTypes]

\* None, for _config and _config_loader and for an absent return value.
None == [id |-> 0]

\* Config(logging=..., ..., debug=...) allocated as object id.
Config(id, lg, pl, mx, out, ch, dbg) ==
    [id |-> id, logging |-> lg, parallel |-> pl, matrix |-> mx,
     output |-> out, cache |-> ch, debug |-> dbg]

(***************************************************************************)
(* The environment and the file system                                     *)
(***************************************************************************)
\* An Optional[str]: None, or a string.
Unset == [set |-> FALSE, s |-> <<>>]
Str(x) == [set |-> TRUE, s |-> x]

ENV_PREFIX == "PMF_"
DEFAULT_CONFIG_FILE == <<"c", "o", "n", "f", "i", "g", ".", "y", "a", "m", "l">>

\* env_mappings of _load_env_config, in the order of the dict literal.
EnvMappings ==
    << [var |-> "PMF_LOG_LEVEL",        section |-> "logging",  key |-> "level",    conv |-> "str"],
       [var |-> "PMF_PARALLEL_WORKERS", section |-> "parallel", key |-> "workers",  conv |-> "int"],
       [var |-> "PMF_MAX_MATRIX_SIZE",  section |-> "matrix",   key |-> "max_size", conv |-> "int"],
       [var |-> "PMF_OUTPUT_FORMAT",    section |-> "output",   key |-> "format",   conv |-> "str"],
       [var |-> "PMF_CACHE_ENABLED",    section |-> "cache",    key |-> "enabled",  conv |-> "bool"],
       [var |-> "PMF_CACHE_TTL",        section |-> "cache",    key |-> "ttl",      conv |-> "int"],
       [var |-> "PMF_DEBUG_MODE",       section |-> "debug",    key |-> "enabled",  conv |-> "bool"] >>

EnvVars == {"PMF_CONFIG_FILE"} \cup {EnvMappings[i].var : i \in 1..Len(EnvMappings)}

\* os.getenv(name)
Getenv(e, name) == e[name]

\* A file: absent, present but unreadable, present with text that is not YAML,
\* present and empty, or present with a YAML document that is a mapping of
\* section names to mappings.
NoFile         == [kind |-> "missing",    doc |-> EmptyDict]
UnreadableFile == [kind |-> "unreadable", doc |-> EmptyDict]
MalformedFile  == [kind |-> "malformed",  doc |-> EmptyDict]
EmptyFile      == [kind |-> "empty",      doc |-> EmptyDict]
YamlFile(d)    == [kind |-> "doc",        doc |-> d]

\* Path(p).exists() and the file at p
FileAt(f, p) == IF p \in DOMAIN f THEN f[p] ELSE NoFile

(***************************************************************************)
(* ConfigLoader (config_loader.py:113-312)                                 *)
(***************************************************************************)
\* A mutant of _get_config_file_path: the environment variable wins.
GetConfigFilePathEnvFirst(config_file, e) ==
    IF Getenv(e, "PMF_CONFIG_FILE").set /\ Getenv(e, "PMF_CONFIG_FILE").s # <<>>
    THEN Getenv(e, "PMF_CONFIG_FILE").s
    ELSE IF config_file.set /\ config_file.s # <<>> THEN config_file.s
    ELSE DEFAULT_CONFIG_FILE

\* _get_config_file_path: a truthy argument, else a truthy PMF_CONFIG_FILE,
\* else the default.
GetConfigFilePath(config_file, e) ==
    IF config_file.set /\ config_file.s # <<>> THEN config_file.s
    ELSE IF Getenv(e, "PMF_CONFIG_FILE").set /\ Getenv(e, "PMF_CONFIG_FILE").s # <<>>
    THEN Getenv(e, "PMF_CONFIG_FILE").s
    ELSE DEFAULT_CONFIG_FILE

\* _load_yaml_config on the file found at the path.
LoadYamlFile(file) ==
    CASE file.kind = "missing"    -> Ok(EmptyDict)
      [] file.kind = "malformed"  -> Raise("ValueError")
      [] file.kind = "unreadable" -> Raise("IOError")
      [] file.kind = "empty"      -> Ok(EmptyDict)     \* safe_load gives None: None or {}
      [] file.kind = "doc"        -> Ok(file.doc)

\* _load_yaml_config
LoadYamlConfig(path, f) == LoadYamlFile(FileAt(f, path))

\* int(): the value of the digits under the sign, ValueError when the digits
\* are not one or more decimal digits.
IntOfSignedDigits(sign, digits) ==
    IF AllDigits(digits)
    THEN Ok(IF sign = "-" THEN 0 - DigitsValue(digits) ELSE DigitsValue(digits))
    ELSE Raise("ValueError")

\* int(): an optional sign, then the digits.
IntOfStripped(x) ==
    IF x # <<>> /\ Head(x) \in {"+", "-"}
    THEN IntOfSignedDigits(Head(x), Tail(x))
    ELSE IntOfSignedDigits("+", x)

\* int(value) for a str: blanks stripped, an optional sign, decimal digits.
IntOfStr(s) == IntOfStripped(Strip(s))

S_true  == <<"t", "r", "u", "e">>
S_1     == <<"1">>
S_yes   == <<"y", "e", "s">>
S_on    == <<"o", "n">>
S_false == <<"f", "a", "l", "s", "e">>
S_0     == <<"0">>
S_no    == <<"n", "o">>
S_off   == <<"o", "f", "f">>

\* A mutant of _str_to_bool: the comparison is made without lower().
StrToBoolCaseSensitive(value) ==
    IF value \in {S_true, S_1, S_yes, S_on} THEN Ok(TRUE)
    ELSE IF value \in {S_false, S_0, S_no, S_off} THEN Ok(FALSE)
    ELSE Raise("ValueError")

\* _str_to_bool
StrToBool(value) ==
    IF Lower(value) \in {S_true, S_1, S_yes, S_on} THEN Ok(TRUE)
    ELSE IF Lower(value) \in {S_false, S_0, S_no, S_off} THEN Ok(FALSE)
    ELSE Raise("ValueError")

\* The outcome r of int or _str_to_bool with its value tagged.
TaggedInt(r)  == IF r.status = "ok" THEN Ok(VInt(r.value)) ELSE r
TaggedBool(r) == IF r.status = "ok" THEN Ok(VBool(r.value)) ELSE r

\* type_converter(value) of one env_mappings entry, as a tagged value.
Convert(conv, s) ==
    CASE conv = "str"  -> Ok(VStr(s))
      [] conv = "int"  -> TaggedInt(IntOfStr(s))
      [] conv = "bool" -> TaggedBool(StrToBool(s))

\* env_config[section][key] = value, the section being created when absent.
SetItem(env_config, section, key, value) ==
    DictUpdate(env_config,
        [s \in {section} |->
            DictUpdate(DictGet(env_config, section, EmptyDict), [k \in {key} |-> value])])

\* The loop of _load_env_config from entry i on, env_config being acc: a
\* variable that is set is converted and stored under its section and key; a
\* conversion that raises ValueError or TypeError ends the load with ValueError.
RECURSIVE LoadEnvFrom(_, _, _)
RECURSIVE LoadEnvEntry(_, _, _, _, _)
RECURSIVE LoadEnvConverted(_, _, _, _, _)
LoadEnvFrom(i, e, acc) ==
    IF i > Len(EnvMappings) THEN Ok(acc)
    ELSE LoadEnvEntry(i, EnvMappings[i], Getenv(e, EnvMappings[i].var), e, acc)

\* One turn of the loop: entry m with value = os.getenv(m.var).
LoadEnvEntry(i, m, value, e, acc) ==
    IF ~value.set THEN LoadEnvFrom(i + 1, e, acc)
    ELSE LoadEnvConverted(i, m, Convert(m.conv, value.s), e, acc)

\* The turn once type_converter(value) has ended as r.
LoadEnvConverted(i, m, r, e, acc) ==
    IF r.status # "ok" THEN Raise("ValueError")
    ELSE LoadEnvFrom(i + 1, e, SetItem(acc, m.section, m.key, r.value))

\* _load_env_config
LoadEnvConfig(e) == LoadEnvFrom(1, e, EmptyDict)

\* ConfigLoader.__init__: the path, then the file, then the environment; the
\* first step that raises ends the construction.
NewConfigLoaderOf(id, path, y, v) ==
    IF y.status # "ok" THEN y
    ELSE IF v.status # "ok" THEN v
    ELSE Ok([id |-> id, _config_file |-> path,
             _yaml_config |-> y.value, _env_config |-> v.value])

NewConfigLoaderAt(id, path, e, f) ==
    NewConfigLoaderOf(id, path, LoadYamlConfig(path, f), LoadEnvConfig(e))

NewConfigLoader(id, config_file, e, f) ==
    NewConfigLoaderAt(id, GetConfigFilePath(config_file, e), e, f)


\* A mutant of _merge_configs: the file's value wins where both supply a key.
MergeConfigsFileFirst(yaml_config, env_config) ==
    [merged |->
        [s \in DOMAIN yaml_config \cup DOMAIN env_config |->
            IF s \in DOMAIN env_config
            THEN DictUpdate(env_config[s], DictGet(yaml_config, s, EmptyDict))
            ELSE yaml_config[s]],
     yaml_config |-> yaml_config]

\* A mutant of _merge_configs: the environment's section replaces the file's.
MergeConfigsWholeSection(yaml_config, env_config) ==
    [merged |-> DictUpdate(yaml_config, env_config),
     yaml_config |-> yaml_config]

\* _merge_configs.  merged is a shallow copy of yaml_config, so a section that
\* the file supplies is the same dict in both, and update() on it changes the
\* caller's yaml_config too; a section only the environment supplies is a new
\* dict of merged alone.  The result is the merged mapping and yaml_config as
\* the call leaves it.
MergeConfigs(yaml_config, env_config) ==
    [merged |->
        [s \in DOMAIN yaml_config \cup DOMAIN env_config |->
            IF s \in DOMAIN env_config
            THEN DictUpdate(DictGet(yaml_config, s, EmptyDict), env_config[s])
            ELSE yaml_config[s]],
     yaml_config |->
        [s \in DOMAIN yaml_config |->
            IF s \in DOMAIN env_config
            THEN DictUpdate(yaml_config[s], env_config[s])
            ELSE yaml_config[s]]]

\* The return statement of _create_config_objects, the six constructor calls
\* having ended as lg .. dbg: the first that raised, or the Config.
ConfigOf(id, lg, pl, mx, out, ch, dbg) ==
    CASE lg.status  # "ok" -> lg
      [] pl.status  # "ok" -> pl
      [] mx.status  # "ok" -> mx
      [] out.status # "ok" -> out
      [] ch.status  # "ok" -> ch
      [] dbg.status # "ok" -> dbg
      [] OTHER -> Ok(Config(id, lg.value, pl.value, mx.value,
                            out.value, ch.value, dbg.value))

\* A mutant of _create_config_objects: a top-level key that is none of the six
\* sections raises TypeError.
CreateConfigObjectsStrict(id, config_dict) ==
    IF ~(DOMAIN config_dict \subseteq Sections) THEN Raise("TypeError")
    ELSE LET r == [s \in Sections |->
                     DataclassInit(SectionDefaults[s], DictGet(config_dict, s, EmptyDict))]
         IN IF \E s \in Sections : r[s].status # "ok" THEN Raise("TypeError")
            ELSE Ok(Config(id, r.logging.value, r.parallel.value, r.matrix.value,
                           r.output.value, r.cache.value, r.debug.value))

\* _create_config_objects: each section's mapping (an empty one when the
\* section is absent) is passed to its dataclass; the first constructor that
\* raises ends the call.  Keys of config_dict other than the six are not read.
CreateConfigObjects(id, config_dict) ==
    ConfigOf(id,
        LoggingConfig(DictGet(config_dict, "logging", EmptyDict)),
        ParallelConfig(DictGet(config_dict, "parallel", EmptyDict)),
        MatrixConfig(DictGet(config_dict, "matrix", EmptyDict)),
        OutputConfig(DictGet(config_dict, "output", EmptyDict)),
        CacheConfig(DictGet(config_dict, "cache", EmptyDict)),
        DebugConfig(DictGet(config_dict, "debug", EmptyDict)))

\* load_config on loader, the Config being allocated as id: the outcome, and
\* the loader as the call leaves it.
LoadConfigCreated(loader, m, c) ==
    [status |-> c.status, value |-> c.value,
     loader |-> [loader EXCEPT !._yaml_config = m.yaml_config]]

LoadConfigMerged(loader, id, m) ==
    LoadConfigCreated(loader, m, CreateConfigObjects(id, m.merged))

LoadConfig(loader, id) ==
    LoadConfigMerged(loader, id, MergeConfigs(loader._yaml_config, loader._env_config))

(***************************************************************************)
(* The registry (config_loader.py:315-366)                                 *)
(***************************************************************************)
\* _config_loader = ConfigLoader(config_file), the constructor having ended
\* as n: the assignment is made only when it returned.
StoreNewLoader(n) ==
    IF n.status = "ok"
    THEN [status |-> "ok", value |-> n.value, loader |-> n.value, used |-> 1]
    ELSE [status |-> n.status, value |-> None, loader |-> None, used |-> 0]

\* get_config_loader(config_file) with the registry holding loader and the
\* next object being id: the outcome, the registry's loader after the call,
\* and the number of objects allocated.
GetConfigLoaderCall(config_file, loader, id, e, f) ==
    IF loader = None
    THEN StoreNewLoader(NewConfigLoader(id, config_file, e, f))
    ELSE [status |-> "ok", value |-> loader, loader |-> loader, used |-> 0]

\* A mutant of GetConfigCall: the cached Config is not consulted, every call
\* loads again.
GetConfigCallNoCache(config_file, config, loader, id, e, f) ==
    LET g == GetConfigLoaderCall(config_file, loader, id, e, f) IN
    IF g.status # "ok"
    THEN [status |-> g.status, value |-> None, config |-> config,
          loader |-> g.loader, used |-> 0]
    ELSE LET l == LoadConfig(g.value, id + g.used) IN
         IF l.status # "ok"
         THEN [status |-> l.status, value |-> None, config |-> config,
               loader |-> l.loader, used |-> g.used]
         ELSE [status |-> "ok", value |-> l.value, config |-> l.value,
               loader |-> l.loader, used |-> g.used + 1]

\* A mutant of GetConfigCall: a resolution that fails publishes the defaults.
GetConfigCallBestEffort(config_file, config, loader, id, e, f) ==
    IF config # None
    THEN [status |-> "ok", value |-> config, config |-> config,
          loader |-> loader, used |-> 0]
    ELSE LET g == GetConfigLoaderCall(config_file, loader, id, e, f)
             fallback == CreateConfigObjects(id, EmptyDict).value
         IN
         IF g.status # "ok"
         THEN [status |-> g.status, value |-> None, config |-> fallback,
               loader |-> g.loader, used |-> 1]
         ELSE LET l == LoadConfig(g.value, id + g.used) IN
              IF l.status # "ok"
              THEN [status |-> l.status, value |-> None,
                    config |-> CreateConfigObjects(id + g.used, EmptyDict).value,
                    loader |-> l.loader, used |-> g.used + 1]
              ELSE [status |-> "ok", value |-> l.value, config |-> l.value,
                    loader |-> l.loader, used |-> g.used + 1]

\* _config = loader.load_config(), load_config having ended as l on the loader
\* that get_config_loader gave as g: the assignment is made only when it
\* returned.
StoreLoaded(g, l) ==
    IF l.status # "ok"
    THEN [status |-> l.status, value |-> None, config |-> None,
          loader |-> l.loader, used |-> g.used]
    ELSE [status |-> "ok", value |-> l.value, config |-> l.value,
          loader |-> l.loader, used |-> g.used + 1]

\* The body of get_config under _config is None, get_config_loader having
\* ended as g.
LoadWithLoader(g, id) ==
    IF g.status # "ok"
    THEN [status |-> g.status, value |-> None, config |-> None,
          loader |-> g.loader, used |-> 0]
    ELSE StoreLoaded(g, LoadConfig(g.value, id + g.used))

\* get_config(config_file) with the registry holding config and loader: the
\* outcome, the registry after the call, and the number of objects allocated.
\* An exception of get_config_loader or of load_config leaves _config as it
\* was; the loader that get_config_loader stored stays stored.
GetConfigCall(config_file, config, loader, id, e, f) ==
    IF config # None
    THEN [status |-> "ok", value |-> config, config |-> config,
          loader |-> loader, used |-> 0]
    ELSE LoadWithLoader(GetConfigLoaderCall(config_file, loader, id, e, f), id)

\* The record of a registry call: its name and argument, how it ended, what it
\* returned, and how many objects it allocated.  tick alternates from call to
\* call, so that a call that repeats the one before it is a step of its own.
Op(name, arg, status, value, built) ==
    [name |-> name, arg |-> arg, status |-> status, value |-> value, built |-> built,
     tick |-> 1 - lastOp.tick]

\* The registry after a get_config_loader call that ended as r.
GetConfigLoaderEnds(config_file, r) ==
    /\ nextId + r.used - 1 <= MaxObjects
    /\ _config_loader' = r.loader
    /\ nextId' = nextId + r.used
    /\ lastOp' = Op("get_config_loader", config_file, r.status, [id |-> r.value.id], r.used)
    /\ UNCHANGED <<env, fs, _config, cacheVars>>

\* get_config_loader(config_file)
GetConfigLoader(config_file) ==
    GetConfigLoaderEnds(config_file,
        GetConfigLoaderCall(config_file, _config_loader, nextId, env, fs))

\* The registry after a get_config call that ended as r.
GetConfigEnds(config_file, r) ==
    /\ nextId + r.used - 1 <= MaxObjects
    /\ _config' = r.config
    /\ _config_loader' = r.loader
    /\ nextId' = nextId + r.used
    /\ lastOp' = Op("get_config", config_file, r.status, r.value, r.used)
    /\ UNCHANGED <<env, fs, cacheVars>>

\* get_config(config_file)
GetConfig(config_file) ==
    GetConfigEnds(config_file,
        GetConfigCall(config_file, _config, _config_loader, nextId, env, fs))

\* A mutant of ResetConfig: the loader is kept.
ResetConfigKeepsLoader ==
    /\ _config' = None
    /\ lastOp' = Op("reset_config", Unset, "ok", None, 0)
    /\ UNCHANGED <<env, fs, nextId, _config_loader, cacheVars>>

\* reset_config()
ResetConfig ==
    /\ _config_loader' = None
    /\ _config' = None
    /\ lastOp' = Op("reset_config", Unset, "ok", None, 0)
    /\ UNCHANGED <<env, fs, nextId, cacheVars>>


(***************************************************************************)
(* MemoryCacheBackend (cache_manager.py:39-111)                            *)
(***************************************************************************)
\* MemoryCacheBackend(): self._cache = {}
MemoryCacheBackend == [_cache |-> EmptyDict]

\* The number a value adds to time.time(): an int as it is, a bool as 0 or 1.
NumberOf(v) == IF v.t = "bool" THEN (IF v.b THEN 1 ELSE 0) ELSE v.i

\* A mutant of MemoryCacheBackend.get: an expired entry is a miss but stays.
BackendGetNoEviction(backend, key, t) ==
    IF key \notin DOMAIN backend._cache
    THEN [value |-> Unset, backend |-> backend, log |-> "none"]
    ELSE IF t > backend._cache[key].expires_at
    THEN [value |-> Unset, backend |-> backend, log |-> "expired"]
    ELSE [value |-> Str(backend._cache[key].value), backend |-> backend, log |-> "hit"]

\* MemoryCacheBackend.get with time.time() = t: the value returned (None, or
\* the entry's value), the backend as the call leaves it, and the message the
\* call logs (none for a key that is not in the dict).
BackendGet(backend, key, t) ==
    IF key \notin DOMAIN backend._cache
    THEN [value |-> Unset, backend |-> backend, log |-> "none"]
    ELSE IF t > backend._cache[key].expires_at
    THEN [value |-> Unset, backend |-> [_cache |-> DictDel(backend._cache, key)],
          log |-> "expired"]
    ELSE [value |-> Str(backend._cache[key].value), backend |-> backend, log |-> "hit"]

\* MemoryCacheBackend.set with time.time() = t; time.time() + ttl raises
\* TypeError for a ttl that is a str.
BackendSet(backend, key, value, ttl, t) ==
    IF ttl.t = "str"
    THEN [status |-> "TypeError", backend |-> backend, log |-> "none"]
    ELSE [status |-> "ok",
          backend |-> [_cache |-> DictSet(backend._cache, key,
                          [value |-> value, expires_at |-> t + NumberOf(ttl)])],
          log |-> "set"]

\* MemoryCacheBackend.delete: the key is removed whenever it is in the dict.
BackendDelete(backend, key) ==
    IF key \in DOMAIN backend._cache
    THEN [value |-> TRUE,  backend |-> [_cache |-> DictDel(backend._cache, key)],
          log |-> "deleted"]
    ELSE [value |-> FALSE, backend |-> backend, log |-> "none"]

\* MemoryCacheBackend.clear
BackendClear(backend) == [backend |-> [_cache |-> EmptyDict], log |-> "cleared"]

(***************************************************************************)
(* CacheManager (cache_manager.py:114-254)                                 *)
(***************************************************************************)
S_CRITICAL == <<"C", "R", "I", "T", "I", "C", "A", "L">>
S_FATAL    == <<"F", "A", "T", "A", "L">>
S_WARNING  == <<"W", "A", "R", "N", "I", "N", "G">>
S_WARN     == <<"W", "A", "R", "N">>
S_NOTSET   == <<"N", "O", "T", "S", "E", "T">>

\* The level names that are attributes of the logging module.
LevelNames ==
    {S_CRITICAL, S_FATAL, <<"E", "R", "R", "O", "R">>, S_WARNING, S_WARN, S_INFO,
     <<"D", "E", "B", "U", "G">>, S_NOTSET}

\* _setup_logging: getattr(logging, level.upper()) raises AttributeError when
\* the level is no str or its upper-case form names no level.
SetupLogging(config) ==
    IF config.logging.level.t = "str" /\ Upper(config.logging.level.s) \in LevelNames
    THEN Ok(<<>>)
    ELSE Raise("AttributeError")

\* A mutant of _create_backend: an unknown name falls back to the memory
\* backend when caching is disabled.
CreateBackendFallback(config) ==
    IF config.cache.backend.t = "str" /\ Lower(config.cache.backend.s) = S_memory
    THEN Ok(MemoryCacheBackend)
    ELSE IF ~Truthy(config.cache.enabled) THEN Ok(MemoryCacheBackend)
    ELSE Raise("ValueError")

\* _create_backend: backend.lower() raises AttributeError when the value is
\* no str; a name other than memory raises ValueError.
CreateBackend(config) ==
    IF config.cache.backend.t # "str" THEN Raise("AttributeError")
    ELSE IF Lower(config.cache.backend.s) = S_memory THEN Ok(MemoryCacheBackend)
    ELSE Raise("ValueError")

\* CacheManager.__init__, _setup_logging having ended as lg and
\* _create_backend as bk: the first that raised, or the manager.
CacheManagerOf(config, lg, bk) ==
    IF lg.status # "ok" THEN lg
    ELSE IF bk.status # "ok" THEN bk
    ELSE Ok([_config |-> config, _backend |-> bk.value])

\* CacheManager(config)
NewCacheManager(config) ==
    CacheManagerOf(config, SetupLogging(config), CreateBackend(config))

\* A mutant of is_enabled: the registry's present snapshot is asked.
IsEnabledOfRegistry(m) ==
    IF _config # None THEN _config.cache.enabled ELSE m._config.cache.enabled

\* CacheManager.is_enabled
IsEnabled(m) == m._config.cache.enabled

\* An Optional[int]: None, or an integer.
NoTtl == [set |-> FALSE, i |-> 0]
Ttl(n) == [set |-> TRUE, i |-> n]

\* A mutant of CacheTtl: an explicit ttl of 0 takes the default.
CacheTtlOrDefault(m, ttl) ==
    IF ttl.set /\ ttl.i # 0 THEN VInt(ttl.i) ELSE m._config.cache.ttl

\* cache_ttl = ttl if ttl is not None else self._config.cache.ttl
CacheTtl(m, ttl) == IF ttl.set THEN VInt(ttl.i) ELSE m._config.cache.ttl

\* CacheManager.get with time.time() = t
ManagerGet(m, key, t) ==
    IF ~Truthy(IsEnabled(m))
    THEN [value |-> Unset, backend |-> m._backend, log |-> "disabled"]
    ELSE BackendGet(m._backend, key, t)

\* A mutant of CacheManager.set: the entry is stored whether or not caching is
\* enabled.
ManagerSetUngated(m, key, value, ttl, t) ==
    BackendSet(m._backend, key, value, CacheTtl(m, ttl), t)

\* CacheManager.set with time.time() = t
ManagerSet(m, key, value, ttl, t) ==
    IF ~Truthy(IsEnabled(m))
    THEN [status |-> "ok", backend |-> m._backend, log |-> "disabled"]
    ELSE BackendSet(m._backend, key, value, CacheTtl(m, ttl), t)

\* CacheManager.delete
ManagerDelete(m, key) ==
    IF ~Truthy(IsEnabled(m))
    THEN [value |-> FALSE, backend |-> m._backend, log |-> "disabled"]
    ELSE BackendDelete(m._backend, key)

\* CacheManager.clear
ManagerClear(m) ==
    IF ~Truthy(IsEnabled(m)) THEN [backend |-> m._backend, log |-> "disabled"]
    ELSE BackendClear(m._backend)

\* The arguments of a call on the i-th manager.
CacheArg(i, key, value, ttl) == [manager |-> i, key |-> key, value |-> value, ttl |-> ttl]

\* The record of a call on a cache manager: as Op, with the time of the call
\* and the message it logged.
CacheOp(name, arg, status, value, log) ==
    [name |-> name, arg |-> arg, status |-> status, value |-> value, built |-> 0,
     tick |-> 1 - lastOp.tick, at |-> now, log |-> log]

\* A mutant of ManagersWith: one backend serves every manager.
ManagersWithShared(i, backend) ==
    [j \in 1..Len(managers) |-> [managers[j] EXCEPT !._backend = backend]]

\* The managers with the i-th one's backend replaced.
ManagersWith(i, backend) == [managers EXCEPT ![i]._backend = backend]

\* cache_manager.get(key) on the i-th manager, the call having ended as r.
CacheGetEnds(i, key, r) ==
    /\ managers' = ManagersWith(i, r.backend)
    /\ lastOp' = CacheOp("get", CacheArg(i, key, <<>>, NoTtl), "ok", r.value, r.log)
    /\ UNCHANGED <<env, fs, _config_loader, _config, nextId, now, threads>>

CacheGet(i, key) ==
    /\ i \in 1..Len(managers)
    /\ CacheGetEnds(i, key, ManagerGet(managers[i], key, now))

\* cache_manager.set(key, value, ttl) on the i-th manager.
CacheSetEnds(i, key, value, ttl, r) ==
    /\ managers' = ManagersWith(i, r.backend)
    /\ lastOp' = CacheOp("set", CacheArg(i, key, value, ttl), r.status, None, r.log)
    /\ UNCHANGED <<env, fs, _config_loader, _config, nextId, now, threads>>

CacheSet(i, key, value, ttl) ==
    /\ i \in 1..Len(managers)
    /\ CacheSetEnds(i, key, value, ttl, ManagerSet(managers[i], key, value, ttl, now))

\* cache_manager.delete(key) on the i-th manager.
CacheDeleteEnds(i, key, r) ==
    /\ managers' = ManagersWith(i, r.backend)
    /\ lastOp' = CacheOp("delete", CacheArg(i, key, <<>>, NoTtl), "ok", VBool(r.value), r.log)
    /\ UNCHANGED <<env, fs, _config_loader, _config, nextId, now, threads>>

CacheDelete(i, key) ==
    /\ i \in 1..Len(managers)
    /\ CacheDeleteEnds(i, key, ManagerDelete(managers[i], key))

\* cache_manager.clear() on the i-th manager.
CacheClearEnds(i, r) ==
    /\ managers' = ManagersWith(i, r.backend)
    /\ lastOp' = CacheOp("clear", CacheArg(i, "", <<>>, NoTtl), "ok", None, r.log)
    /\ UNCHANGED <<env, fs, _config_loader, _config, nextId, now, threads>>

CacheClear(i) ==
    /\ i \in 1..Len(managers)
    /\ CacheClearEnds(i, ManagerClear(managers[i]))

\* cache_manager.is_enabled() on the i-th manager.
CacheIsEnabled(i) ==
    /\ i \in 1..Len(managers)
    /\ lastOp' = CacheOp("is_enabled", CacheArg(i, "", <<>>, NoTtl), "ok",
                         IsEnabled(managers[i]), "none")
    /\ UNCHANGED <<env, fs, _config_loader, _config, nextId, now, managers, threads>>

\* create_cache_manager() once get_config() has ended as r and, when it
\* returned, CacheManager(config) as n: the registry is as get_config left it;
\* the manager exists when both returned.
CreateCacheManagerEnds(r, n) ==
    /\ Len(managers) < MaxManagers
    /\ nextId + r.used - 1 <= MaxObjects
    /\ _config' = r.config
    /\ _config_loader' = r.loader
    /\ nextId' = nextId + r.used
    /\ managers' = IF r.status = "ok" /\ n.status = "ok"
                   THEN Append(managers, n.value) ELSE managers
    /\ lastOp' = Op("create_cache_manager", Unset,
                    IF r.status # "ok" THEN r.status ELSE n.status,
                    [id |-> r.value.id], r.used)
    /\ UNCHANGED <<env, fs, now, threads>>

\* CacheManager(config) for the outcome r of get_config().
CacheManagerFor(r) ==
    IF r.status = "ok" THEN NewCacheManager(r.value) ELSE Raise(r.status)

CreateCacheManagerWith(r) == CreateCacheManagerEnds(r, CacheManagerFor(r))

\* create_cache_manager()
CreateCacheManager ==
    CreateCacheManagerWith(GetConfigCall(Unset, _config, _config_loader, nextId, env, fs))

\* Time passes.
Tick ==
    /\ now < MaxTime
    /\ now' = now + 1
    /\ UNCHANGED <<env, fs, _config_loader, _config, nextId, lastOp, managers, threads>>

(***************************************************************************)
(* Assignment to a field of a frozen dataclass (config_loader.py:53-110)   *)
(***************************************************************************)
\* A mutant of FrozenSetattr: the dataclass is not frozen.
PlainSetattr(obj, name, value) ==
    [status |-> "ok", obj |-> [k \in DOMAIN obj |-> IF k = name THEN value ELSE obj[k]]]

\* The __setattr__ that @dataclass(frozen=True) generates: FrozenInstanceError
\* for every name, the object left as it is.
FrozenSetattr(obj, name, value) == [status |-> "FrozenInstanceError", obj |-> obj]

\* The snapshot held by who: the registry (0) or the who-th manager.
SnapshotOf(who) == IF who = 0 THEN _config ELSE managers[who]._config

\* Every reference to the object c.id made to see the object as c.
RegistrySeeing(c) == IF _config.id = c.id THEN c ELSE _config
ManagersSeeing(c) ==
    [i \in 1..Len(managers) |->
        IF managers[i]._config.id = c.id
        THEN [managers[i] EXCEPT !._config = c] ELSE managers[i]]

\* The end of an assignment on the snapshot c that left it as obj.
SetattrEnds(who, name, status, obj) ==
    /\ _config' = RegistrySeeing(obj)
    /\ managers' = ManagersSeeing(obj)
    /\ lastOp' = CacheOp("setattr", CacheArg(who, name, <<>>, NoTtl), status, None, "none")
    /\ UNCHANGED <<env, fs, _config_loader, nextId, now, threads>>

\* config.<section>.<key> = value, r being the outcome of the section's
\* __setattr__.
SetSectionFieldEnds(who, c, section, key, r) ==
    SetattrEnds(who, key, r.status, [c EXCEPT ![section] = r.obj])

\* config.<section>.<key> = value on the snapshot held by who.
SetSectionField(who, section, key, value) ==
    /\ who \in 0..Len(managers)
    /\ SnapshotOf(who) # None
    /\ key \in DOMAIN SectionDefaults[section]
    /\ SetSectionFieldEnds(who, SnapshotOf(who), section, key,
            FrozenSetattr(SnapshotOf(who)[section], key, value))

\* config.<section> = value, r being the outcome of Config's __setattr__.
SetSectionEnds(who, section, r) == SetattrEnds(who, section, r.status, r.obj)

\* config.<section> = value on the snapshot held by who.
SetSection(who, section, value) ==
    /\ who \in 0..Len(managers)
    /\ SnapshotOf(who) # None
    /\ SetSectionEnds(who, section, FrozenSetattr(SnapshotOf(who), section, value))

(***************************************************************************)
(* get_config called from several threads (config_loader.py:320-354).      *)
(* The interpreter switches threads between bytecodes, so each read and    *)
(* each write of a global is a step of its own.                            *)
(***************************************************************************)
ThreadIds == 1..MaxThreads

\* A thread outside get_config that has not called it yet.
IdleThread ==
    [pc |-> "idle", config_file |-> Unset, loader |-> None, made |-> None,
     status |-> "ok", ret |-> None, calls |-> 0]

\* The thread t at position pc.
At(t, pc) == threads[t].pc = pc

\* What a step of a thread leaves alone besides the registry.
threadFrame == <<env, fs, lastOp, now, managers>>

\* Thread t calls get_config(config_file).
ThreadCall(t, config_file) ==
    /\ threads[t].pc \in {"idle", "done"}
    /\ threads[t].calls < MaxCalls
    /\ threads' = [threads EXCEPT ![t] =
                      [pc |-> "check_config", config_file |-> config_file,
                       loader |-> None, made |-> None, status |-> "ok", ret |-> None,
                       calls |-> threads[t].calls + 1]]
    /\ UNCHANGED <<_config_loader, _config, nextId, threadFrame>>

\* if _config is None:
ThreadCheckConfig(t) ==
    /\ At(t, "check_config")
    /\ threads' = [threads EXCEPT ![t].pc =
                      IF _config = None THEN "check_loader" ELSE "return"]
    /\ UNCHANGED <<_config_loader, _config, nextId, threadFrame>>

\* get_config_loader: if _config_loader is None:
ThreadCheckLoader(t) ==
    /\ At(t, "check_loader")
    /\ threads' = [threads EXCEPT ![t].pc =
                      IF _config_loader = None THEN "construct" ELSE "return_loader"]
    /\ UNCHANGED <<_config_loader, _config, nextId, threadFrame>>

\* ConfigLoader(config_file) has ended as n: the call raises out of get_config,
\* or the new loader waits to be stored.
ThreadConstructEnds(t, n) ==
    /\ nextId <= MaxObjects
    /\ threads' = [threads EXCEPT ![t] =
                      IF n.status = "ok"
                      THEN [@ EXCEPT !.pc = "store_loader", !.made = n.value]
                      ELSE [@ EXCEPT !.pc = "done", !.status = n.status]]
    /\ nextId' = IF n.status = "ok" THEN nextId + 1 ELSE nextId
    /\ UNCHANGED <<_config_loader, _config, threadFrame>>

\* ConfigLoader(config_file)
ThreadConstruct(t) ==
    /\ At(t, "construct")
    /\ ThreadConstructEnds(t, NewConfigLoader(nextId, threads[t].config_file, env, fs))

\* _config_loader = <the new loader>
ThreadStoreLoader(t) ==
    /\ At(t, "store_loader")
    /\ _config_loader' = threads[t].made
    /\ threads' = [threads EXCEPT ![t].pc = "return_loader", ![t].made = None]
    /\ UNCHANGED <<_config, nextId, threadFrame>>

\* return _config_loader; loader = <the value returned>
ThreadReturnLoader(t) ==
    /\ At(t, "return_loader")
    /\ threads' = [threads EXCEPT ![t].pc = "load", ![t].loader = _config_loader]
    /\ UNCHANGED <<_config_loader, _config, nextId, threadFrame>>

\* The loader object l.id as every reference to it sees it after load_config
\* left it as l.
LoaderSeen(ref, l) == IF ref.id = l.id THEN l ELSE ref

\* loader.load_config() has ended as l: the call raises out of get_config, or
\* the new Config waits to be stored.
ThreadLoadEnds(t, l) ==
    /\ nextId <= MaxObjects
    /\ threads' = [u \in ThreadIds |->
                      IF u = t
                      THEN IF l.status = "ok"
                           THEN [threads[t] EXCEPT !.pc = "store_config", !.made = l.value,
                                                   !.loader = l.loader]
                           ELSE [threads[t] EXCEPT !.pc = "done", !.status = l.status,
                                                   !.loader = l.loader]
                      ELSE [threads[u] EXCEPT !.loader = LoaderSeen(@, l.loader)]]
    /\ _config_loader' = LoaderSeen(_config_loader, l.loader)
    /\ nextId' = IF l.status = "ok" THEN nextId + 1 ELSE nextId
    /\ UNCHANGED <<_config, threadFrame>>

\* loader.load_config()
ThreadLoad(t) ==
    /\ At(t, "load")
    /\ ThreadLoadEnds(t, LoadConfig(threads[t].loader, nextId))

\* _config = <the new Config>
ThreadStoreConfig(t) ==
    /\ At(t, "store_config")
    /\ _config' = threads[t].made
    /\ threads' = [threads EXCEPT ![t].pc = "return", ![t].made = None]
    /\ UNCHANGED <<_config_loader, nextId, threadFrame>>

\* return _config
ThreadReturn(t) ==
    /\ At(t, "return")
    /\ threads' = [threads EXCEPT ![t].pc = "done", ![t].ret = _config]
    /\ UNCHANGED <<_config_loader, _config, nextId, threadFrame>>

(***************************************************************************)
(* The inputs: strings, documents, environments                            *)
(***************************************************************************)
S_ERROR        == <<"E", "R", "R", "O", "R">>
S_DEBUG        == <<"D", "E", "B", "U", "G">>
S_csv          == <<"c", "s", "v">>
S_xml          == <<"x", "m", "l">>
S_12           == <<"1", "2">>
S_60           == <<"6", "0">>
S_20000        == <<"2", "0", "0", "0", "0">>
S_not_a_number == <<"n", "o", "t", "_", "a", "_", "n", "u", "m", "b", "e", "r">>
S_invalid      == <<"i", "n", "v", "a", "l", "i", "d">>
S_eight        == <<"e", "i", "g", "h", "t">>
S_TRUE         == <<"T", "R", "U", "E">>
S_Off          == <<"O", "f", "f">>
S_message      == <<"%", "(", "m", "e", "s", "s", "a", "g", "e", ")", "s">>
A_YAML         == <<"a", ".", "y", "a", "m", "l">>

\* A document that supplies every field of every section, each with a value
\* that is neither the field's default nor a value the environments below give.
DocFull ==
    [logging  |-> [level |-> VStr(S_DEBUG), format |-> VStr(S_message)],
     parallel |-> [workers |-> VInt(8), chunk_size |-> VInt(500)],
     matrix   |-> [max_size |-> VInt(5000), default_precision |-> VInt(3)],
     output   |-> [format |-> VStr(S_xml), compression |-> VBool(TRUE)],
     cache    |-> [enabled |-> VBool(FALSE), ttl |-> VInt(7200), backend |-> VStr(S_memory)],
     debug    |-> [enabled |-> VBool(TRUE), profiling |-> VBool(TRUE)]]

\* {parallel: {workers: 8}, cache: {ttl: 7200}}
DocPartial ==
    [parallel |-> [workers |-> VInt(8)], cache |-> [ttl |-> VInt(7200)]]

\* A key that is no field of its section.
DocUnknownField ==
    [parallel |-> [workers |-> VInt(8), threads |-> VInt(2)]]

\* A top-level key that is none of the six sections.
DocUnknownSection ==
    [parallel |-> [workers |-> VInt(8)], extra |-> [threads |-> VInt(2)]]

\* A text value for the integer field parallel.workers.
DocWrongType ==
    [parallel |-> [workers |-> VStr(S_eight)], cache |-> [ttl |-> VInt(7200)]]

\* The paths of the model.
Paths == {DEFAULT_CONFIG_FILE, A_YAML}

\* The config_file arguments passed to get_config and get_config_loader.
PathArgs == {Unset, Str(A_YAML)}

(***************************************************************************)
(* The program's surroundings: os.environ and the files, as the tests set  *)
(* them between calls                                                      *)
(***************************************************************************)
\* The values os.environ[var] = value takes between the calls of a behaviour.
EnvChoices ==
    {<<"PMF_PARALLEL_WORKERS", S_12>>,
     <<"PMF_PARALLEL_WORKERS", S_not_a_number>>,
     <<"PMF_CACHE_ENABLED", S_invalid>>}

\* The contents a file takes between the calls of a behaviour.
FileChoices ==
    {NoFile, MalformedFile, UnreadableFile, YamlFile(DocFull), YamlFile(DocUnknownField)}

\* os.environ[var] = value
Putenv(var, value) ==
    /\ env' = [env EXCEPT ![var] = Str(value)]
    /\ UNCHANGED <<fs, _config_loader, _config, nextId, lastOp, cacheVars>>

\* del os.environ[var]
Unsetenv(var) ==
    /\ env[var].set
    /\ env' = [env EXCEPT ![var] = Unset]
    /\ UNCHANGED <<fs, _config_loader, _config, nextId, lastOp, cacheVars>>

\* The file at path is written, made unreadable, or removed.
WriteFile(path, file) ==
    /\ fs' = [fs EXCEPT ![path] = file]
    /\ UNCHANGED <<env, _config_loader, _config, nextId, lastOp, cacheVars>>

(***************************************************************************)
(* Spec: the registry in a process whose environment and files change      *)
(* between the calls                                                       *)
(***************************************************************************)
NoOp ==
    [name |-> "none", arg |-> Unset, status |-> "ok", value |-> None, built |-> 0,
     tick |-> 0]

\* The clock at its origin, no cache manager created, no thread in get_config.
InitRest ==
    /\ now = 0
    /\ managers = <<>>
    /\ threads = [t \in ThreadIds |-> IdleThread]

Init ==
    /\ env = [v \in EnvVars |-> Unset]
    /\ fs = [p \in Paths |-> NoFile]
    /\ _config_loader = None
    /\ _config = None
    /\ nextId = 1
    /\ lastOp = NoOp
    /\ InitRest

Next ==
    \/ \E a \in PathArgs : GetConfig(a)
    \/ \E a \in PathArgs : GetConfigLoader(a)
    \/ ResetConfig
    \/ \E c \in EnvChoices : Putenv(c[1], c[2])
    \/ \E v \in EnvVars : Unsetenv(v)
    \/ \E p \in Paths, f \in FileChoices : WriteFile(p, f)

Spec == Init /\ [][Next]_vars


(***************************************************************************)
(* Claims on the registry                                                  *)
(***************************************************************************)
\* What a resolution from nothing gives for argument a with the environment e
\* and the files f: how it ends and, when it succeeds, the file read and the
\* six sections.
Resolution(a, e, f) ==
    LET n == NewConfigLoader(0, a, e, f) IN
    IF n.status # "ok" THEN [status |-> n.status, path |-> <<>>, sections |-> EmptyDict]
    ELSE LET l == LoadConfig(n.value, 0) IN
         IF l.status # "ok"
         THEN [status |-> l.status, path |-> <<>>, sections |-> EmptyDict]
         ELSE [status |-> "ok", path |-> n.value._config_file,
               sections |-> [s \in Sections |-> l.value[s]]]

\* The six sections of a Config.
SectionsOf(c) == [s \in Sections |-> c[s]]

\* C1: once the registry holds a snapshot, every get_config call returns that
\* very object (same id, same fields) whatever its argument, and the snapshot
\* stays the registry's until reset_config; a snapshot that get_config returns
\* is the registry's.
C1_SameSnapshotUntilReset ==
    /\ [](lastOp.name = "get_config" /\ lastOp.status = "ok"
            => _config # None /\ lastOp.value = _config)
    /\ [][/\ (_config # None /\ lastOp'.name # "reset_config") => _config' = _config
          /\ \A a \in PathArgs :
                (_config # None /\ GetConfig(a))
                    => lastOp'.status = "ok" /\ lastOp'.value = _config]_vars

\* C1 witness: get_config(a.yaml) answered from the registry with a snapshot
\* that was resolved from another file and under another environment than the
\* present one.
C1_Witness ==
    /\ lastOp.name = "get_config" /\ lastOp.status = "ok" /\ lastOp.built = 0
    /\ lastOp.arg = Str(A_YAML)
    /\ _config_loader # None /\ _config_loader._config_file = DEFAULT_CONFIG_FILE
    /\ Resolution(lastOp.arg, env, fs).status = "ok"
    /\ Resolution(lastOp.arg, env, fs).sections # SectionsOf(lastOp.value)

\* C2: after a get_config call that raised, whatever the exception, nothing
\* was returned and the registry holds no snapshot.
C2_FailurePublishesNothing ==
    (lastOp.name = "get_config" /\ lastOp.status # "ok")
        => _config = None /\ lastOp.value = None

\* C2 witness: a get_config call that raised on the environment (ValueError
\* of a coercion) with a file that alone would have resolved.
C2_Witness ==
    /\ lastOp.name = "get_config" /\ lastOp.status = "ValueError"
    /\ FileAt(fs, GetConfigFilePath(lastOp.arg, env)).kind = "doc"
    /\ LoadEnvConfig(env).status # "ok"
    /\ _config = None

\* C3: a get_config call that repeats a failed get_config (the environment and
\* the files possibly changed in between, reset_config not called) ends as a
\* resolution from nothing of the present file and environment ends, and when
\* that succeeds returns its fields.
C3_RetryResolvesAnew ==
    [][\A a \in PathArgs :
          (/\ lastOp.name = "get_config" /\ lastOp.status # "ok" /\ lastOp.arg = a
           /\ GetConfig(a))
              => /\ lastOp'.status = Resolution(a, env, fs).status
                 /\ lastOp'.status = "ok"
                       => SectionsOf(lastOp'.value) = Resolution(a, env, fs).sections]_vars

\* C4: after reset_config the registry holds neither snapshot nor loader; the
\* get_config call that follows it ends as a resolution from nothing of the
\* present file and environment ends, and when that succeeds it stores a
\* loader and a snapshot that are both new objects, the loader for the file
\* the present argument and environment select, the snapshot with the fields
\* resolved from the present inputs.
C4_ResetThenFreshResolution ==
    /\ [](lastOp.name = "reset_config" => _config = None /\ _config_loader = None)
    /\ [][\A a \in PathArgs :
             (lastOp.name = "reset_config" /\ GetConfig(a))
                 => /\ lastOp'.status = Resolution(a, env, fs).status
                    /\ lastOp'.status = "ok"
                          => /\ _config_loader'.id = nextId
                             /\ _config_loader'._config_file = Resolution(a, env, fs).path
                             /\ _config'.id = nextId + 1
                             /\ lastOp'.value = _config'
                             /\ SectionsOf(_config') = Resolution(a, env, fs).sections]_vars

\* C4 witness: a snapshot resolved right after a reset_config that discarded
\* an earlier snapshot, under inputs that give it other fields than a
\* resolution of the defaults.
C4_Witness ==
    /\ lastOp.name = "get_config" /\ lastOp.status = "ok" /\ lastOp.built = 2
    /\ _config_loader.id = 3 /\ _config.id = 4
    /\ _config.parallel.workers = VInt(12)


(***************************************************************************)
(* SpecResolve: the registry in a process whose environment and files are  *)
(* fixed, for every combination of the environments and files below        *)
(***************************************************************************)
\* The values each variable takes: unset, a value its conversion accepts and,
\* for the integer and boolean variables, one it rejects.
ResolveEnvValues ==
    [PMF_CONFIG_FILE      |-> {Unset},
     PMF_LOG_LEVEL        |-> {Unset, Str(S_ERROR)},
     PMF_PARALLEL_WORKERS |-> {Unset, Str(S_12), Str(S_not_a_number)},
     PMF_MAX_MATRIX_SIZE  |-> {Unset, Str(S_20000)},
     PMF_OUTPUT_FORMAT    |-> {Unset, Str(S_csv)},
     PMF_CACHE_ENABLED    |-> {Unset, Str(S_TRUE), Str(S_invalid)},
     PMF_CACHE_TTL        |-> {Unset, Str(S_60)},
     PMF_DEBUG_MODE       |-> {Unset, Str(S_Off)}]

ResolveEnvs ==
    [PMF_CONFIG_FILE      : ResolveEnvValues.PMF_CONFIG_FILE,
     PMF_LOG_LEVEL        : ResolveEnvValues.PMF_LOG_LEVEL,
     PMF_PARALLEL_WORKERS : ResolveEnvValues.PMF_PARALLEL_WORKERS,
     PMF_MAX_MATRIX_SIZE  : ResolveEnvValues.PMF_MAX_MATRIX_SIZE,
     PMF_OUTPUT_FORMAT    : ResolveEnvValues.PMF_OUTPUT_FORMAT,
     PMF_CACHE_ENABLED    : ResolveEnvValues.PMF_CACHE_ENABLED,
     PMF_CACHE_TTL        : ResolveEnvValues.PMF_CACHE_TTL,
     PMF_DEBUG_MODE       : ResolveEnvValues.PMF_DEBUG_MODE]

\* The contents of config.yaml; a.yaml does not exist.
ResolveFiles ==
    {NoFile, EmptyFile, MalformedFile, UnreadableFile,
     YamlFile(DocFull), YamlFile(DocPartial), YamlFile(DocUnknownField),
     YamlFile(DocUnknownSection), YamlFile(DocWrongType)}

ResolveFileSystems ==
    {[p \in Paths |-> IF p = DEFAULT_CONFIG_FILE THEN file ELSE NoFile] :
        file \in ResolveFiles}

InitResolve ==
    /\ env \in ResolveEnvs
    /\ fs \in ResolveFileSystems
    /\ _config_loader = None
    /\ _config = None
    /\ nextId = 1
    /\ lastOp = NoOp
    /\ InitRest

NextResolve ==
    \/ \E a \in PathArgs : GetConfig(a)
    \/ \E a \in PathArgs : GetConfigLoader(a)
    \/ ResetConfig

SpecResolve == InitResolve /\ [][NextResolve]_vars


(***************************************************************************)
(* Claims on the resolution                                                *)
(***************************************************************************)
\* The documented defaults of the six sections.
DocumentedDefaults ==
    [logging  |-> [level |-> VStr(S_INFO), format |-> VStr(S_LOG_FORMAT)],
     parallel |-> [workers |-> VInt(4), chunk_size |-> VInt(1000)],
     matrix   |-> [max_size |-> VInt(10000), default_precision |-> VInt(2)],
     output   |-> [format |-> VStr(S_json), compression |-> VBool(FALSE)],
     cache    |-> [enabled |-> VBool(TRUE), ttl |-> VInt(3600), backend |-> VStr(S_memory)],
     debug    |-> [enabled |-> VBool(FALSE), profiling |-> VBool(FALSE)]]

\* The value each valid environment string of ResolveEnvValues stands for.
CoercedValue(var, x) ==
    CASE var = "PMF_LOG_LEVEL"        /\ x = S_ERROR -> VStr(S_ERROR)
      [] var = "PMF_PARALLEL_WORKERS" /\ x = S_12    -> VInt(12)
      [] var = "PMF_MAX_MATRIX_SIZE"  /\ x = S_20000 -> VInt(20000)
      [] var = "PMF_OUTPUT_FORMAT"    /\ x = S_csv   -> VStr(S_csv)
      [] var = "PMF_CACHE_ENABLED"    /\ x = S_TRUE  -> VBool(TRUE)
      [] var = "PMF_CACHE_TTL"        /\ x = S_60    -> VInt(60)
      [] var = "PMF_DEBUG_MODE"       /\ x = S_Off   -> VBool(FALSE)

\* The environment strings that are valid for their variable.
ValidEnvString(var, x) ==
    \/ var = "PMF_LOG_LEVEL"        /\ x = S_ERROR
    \/ var = "PMF_PARALLEL_WORKERS" /\ x = S_12
    \/ var = "PMF_MAX_MATRIX_SIZE"  /\ x = S_20000
    \/ var = "PMF_OUTPUT_FORMAT"    /\ x = S_csv
    \/ var = "PMF_CACHE_ENABLED"    /\ x = S_TRUE
    \/ var = "PMF_CACHE_TTL"        /\ x = S_60
    \/ var = "PMF_DEBUG_MODE"       /\ x = S_Off

\* The document of the file the registry's loader read (an empty mapping when
\* the file is absent or empty).
FileDoc == FileAt(fs, _config_loader._config_file).doc

\* Whether the document supplies section.key.
Supplies(doc, section, key) == section \in DOMAIN doc /\ key \in DOMAIN doc[section]

\* The environment variable of section.key, if it has one.
HasEnvVar(section, key) ==
    \E i \in 1..Len(EnvMappings) : EnvMappings[i].section = section /\ EnvMappings[i].key = key
EnvVarOf(section, key) ==
    EnvMappings[CHOOSE i \in 1..Len(EnvMappings) :
                    EnvMappings[i].section = section /\ EnvMappings[i].key = key].var

\* C5: in every snapshot, each of the seven fields with an environment variable
\* whose variable is set to a valid value while the file supplies the field
\* holds the coerced environment value.
C5_EnvironmentWins ==
    _config # None =>
        \A i \in 1..Len(EnvMappings) :
            LET m == EnvMappings[i] IN
            (/\ env[m.var].set /\ ValidEnvString(m.var, env[m.var].s)
             /\ Supplies(FileDoc, m.section, m.key))
                => _config[m.section][m.key] = CoercedValue(m.var, env[m.var].s)

\* C5 witness: a snapshot resolved with all seven variables set and a file that
\* supplies all seven fields.
C5_Witness ==
    /\ _config # None
    /\ \A i \in 1..Len(EnvMappings) :
          /\ env[EnvMappings[i].var].set
          /\ Supplies(FileDoc, EnvMappings[i].section, EnvMappings[i].key)

\* C6: in every snapshot, each field whose environment variable is not set (or
\* that has none) holds the file's value when the file supplies the field and
\* the documented default otherwise.
C6_FallThroughAndDefaults ==
    _config # None =>
        \A section \in Sections : \A key \in DOMAIN DocumentedDefaults[section] :
            (HasEnvVar(section, key) => ~env[EnvVarOf(section, key)].set)
                => _config[section][key] =
                      IF Supplies(FileDoc, section, key) THEN FileDoc[section][key]
                      ELSE DocumentedDefaults[section][key]

\* C6 witness: a snapshot whose cache.ttl comes from the file while
\* PMF_CACHE_ENABLED sets another field of the same section, and whose other
\* sections fall to the file or the defaults.
C6_Witness ==
    /\ _config # None
    /\ FileDoc = DocPartial
    /\ env["PMF_CACHE_ENABLED"].set /\ ~env["PMF_CACHE_TTL"].set
    /\ ~env["PMF_PARALLEL_WORKERS"].set /\ ~env["PMF_LOG_LEVEL"].set
    /\ _config.cache.ttl = VInt(7200)
    /\ _config.parallel.workers = VInt(8)
    /\ _config.matrix = DocumentedDefaults.matrix

\* Whether one of the six sections of mapping d has a key that is no field of
\* the section.
HasUnknownField(d) ==
    \E section \in Sections \cap DOMAIN d :
        ~(DOMAIN d[section] \subseteq DOMAIN DocumentedDefaults[section])

\* Whether mapping d has a top-level key that is none of the six sections.
HasUnknownSection(d) == ~(DOMAIN d \subseteq Sections)

\* The mapping that load_config merges from the registry's loader.
MergedMapping == MergeConfigs(_config_loader._yaml_config, _config_loader._env_config).merged

\* C7: when the merged mapping of the registry's loader has, in one of the six
\* sections, a key that is no field of the section, the registry holds no
\* snapshot, and a get_config call has raised TypeError and returned nothing.
C7_UnknownFieldRejected ==
    (_config_loader # None /\ HasUnknownField(MergedMapping))
        => /\ _config = None
           /\ lastOp.name = "get_config"
                 => lastOp.status = "TypeError" /\ lastOp.value = None

\* C7 witness: get_config raised TypeError on a merged mapping with an unknown
\* field, the environment contributing valid values.
C7_Witness ==
    /\ lastOp.name = "get_config" /\ lastOp.status = "TypeError"
    /\ _config_loader # None /\ HasUnknownField(MergedMapping)
    /\ env["PMF_PARALLEL_WORKERS"] = Str(S_12) /\ env["PMF_LOG_LEVEL"] = Str(S_ERROR)

\* C8 as stated: no snapshot is resolved from a file with a key outside the
\* schema, be it an unknown field of a section or an unknown top-level section.
C8_AnyKeyOutsideSchemaFails ==
    _config # None => ~HasUnknownField(FileDoc) /\ ~HasUnknownSection(FileDoc)

\* C8 amended: no snapshot is resolved from a file with an unknown field in
\* one of the six sections; a top-level key that is none of the six sections
\* is ignored: a get_config call on a loader that read such a file (and no
\* unknown field) succeeds with the sections the file gives without that key.
C8_UnknownFieldFailsUnknownSectionIgnored ==
    /\ _config # None => ~HasUnknownField(FileDoc)
    /\ (/\ lastOp.name = "get_config" /\ _config_loader # None
        /\ HasUnknownSection(FileDoc) /\ ~HasUnknownField(FileDoc))
          => /\ lastOp.status = "ok"
             /\ SectionsOf(lastOp.value) =
                  Resolution(Str(_config_loader._config_file), env,
                      [fs EXCEPT ![_config_loader._config_file] =
                          YamlFile([s \in DOMAIN FileDoc \cap Sections |-> FileDoc[s]])]).sections

\* C8 witness: a snapshot resolved from a file with the top-level key extra.
C8_Witness ==
    /\ lastOp.name = "get_config" /\ lastOp.status = "ok"
    /\ FileDoc = DocUnknownSection
    /\ _config.parallel.workers \in {VInt(8), VInt(12)}

\* C9 as stated: every field of every snapshot holds a value of the field's
\* declared type (a file value of another type makes the resolution fail).
C9_FieldsHaveDeclaredTypes ==
    _config # None =>
        \A section \in Sections : \A key \in DOMAIN SectionTypes[section] :
            _config[section][key].t = SectionTypes[section][key]


(***************************************************************************)
(* SpecCoerce: the registry in a process with no file and one boolean      *)
(* variable set, for every string below                                    *)
(***************************************************************************)
\* Every casing of the lower-case word w.
RECURSIVE Casings(_)
Casings(w) ==
    IF w = <<>> THEN {<<>>}
    ELSE {<<c>> \o r : c \in {Head(w), UpperChar(Head(w))}, r \in Casings(Tail(w))}

TrueStrings  == Casings(S_true) \cup Casings(S_1) \cup Casings(S_yes) \cup Casings(S_on)
FalseStrings == Casings(S_false) \cup Casings(S_0) \cup Casings(S_no) \cup Casings(S_off)

\* Strings that are no casing of an accepted word: the empty string, prefixes
\* and extensions of accepted words, words with blanks around them, other
\* digits and other words.
OtherStrings ==
    {<<>>, <<" ">>, <<"t">>, <<"f">>, <<"y">>, <<"n">>, <<"o">>, <<"2">>,
     <<"t", "r", "u">>, <<"t", "r", "u", "e", "e">>, <<" ", "t", "r", "u", "e">>,
     <<"T", "R", "U", "E", " ">>, <<"f", "a", "l", "s">>, <<"o", "f">>,
     <<"0", "0">>, <<"1", "0">>, <<"1", ".", "0">>, <<"O", "K">>,
     <<"n", "o", "n", "e">>, <<"N", "o", "n", "e">>, <<"o", "n", "e">>,
     S_invalid, <<"e", "n", "a", "b", "l", "e", "d">>}

BoolInputs == TrueStrings \cup FalseStrings \cup OtherStrings

\* The boolean variables with the field each one sets.
BoolVars == {m \in {EnvMappings[i] : i \in 1..Len(EnvMappings)} : m.conv = "bool"}

InitCoerce ==
    /\ \E m \in BoolVars, x \in BoolInputs :
          env = [v \in EnvVars |-> IF v = m.var THEN Str(x) ELSE Unset]
    /\ fs = [p \in Paths |-> NoFile]
    /\ _config_loader = None
    /\ _config = None
    /\ nextId = 1
    /\ lastOp = NoOp
    /\ InitRest

NextCoerce ==
    \/ \E a \in PathArgs : GetConfig(a)
    \/ ResetConfig

SpecCoerce == InitCoerce /\ [][NextCoerce]_vars

\* C10: with PMF_CACHE_ENABLED or PMF_DEBUG_MODE set to x, a get_config call
\* returns a snapshot whose field is true when x is a casing of true, 1, yes
\* or on, returns one whose field is false when x is a casing of false, 0, no
\* or off, and for every other x raises ValueError and publishes nothing.
C10_BooleanCoercion ==
    lastOp.name = "get_config" =>
        \A m \in BoolVars :
            env[m.var].set =>
                IF env[m.var].s \in TrueStrings
                THEN lastOp.status = "ok" /\ lastOp.value[m.section][m.key] = VBool(TRUE)
                ELSE IF env[m.var].s \in FalseStrings
                THEN lastOp.status = "ok" /\ lastOp.value[m.section][m.key] = VBool(FALSE)
                ELSE lastOp.status = "ValueError" /\ _config = None

\* C10 witness: PMF_CACHE_ENABLED=oFF resolved to cache.enabled false.
C10_Witness ==
    /\ lastOp.name = "get_config" /\ lastOp.status = "ok"
    /\ env["PMF_CACHE_ENABLED"] = Str(<<"o", "F", "F">>)
    /\ _config.cache.enabled = VBool(FALSE)


(***************************************************************************)
(* SpecPath: the registry in a process with PMF_CONFIG_FILE unset, empty   *)
(* or naming a file, and each of three files present or absent             *)
(***************************************************************************)
B_YAML == <<"b", ".", "y", "a", "m", "l">>

\* The paths that may hold a file.
PathFiles == {DEFAULT_CONFIG_FILE, A_YAML, B_YAML}

\* The logging.level that the file at each path declares, and no other file.
LevelAt(p) ==
    CASE p = DEFAULT_CONFIG_FILE -> S_WARNING
      [] p = A_YAML              -> S_ERROR
      [] p = B_YAML              -> S_DEBUG

\* {logging: {level: <the level of the path>}}
DocAt(p) == [logging |-> [level |-> VStr(LevelAt(p))]]

PathFileSystems ==
    {[p \in PathFiles |-> IF p \in present THEN YamlFile(DocAt(p)) ELSE NoFile] :
        present \in SUBSET PathFiles}

\* The values of PMF_CONFIG_FILE and of the config_file argument.
PathEnvValues == {Unset, Str(<<>>), Str(A_YAML), Str(B_YAML)}
PathArgValues == {Unset, Str(<<>>), Str(A_YAML)}

InitPath ==
    /\ \E x \in PathEnvValues :
          env = [v \in EnvVars |-> IF v = "PMF_CONFIG_FILE" THEN x ELSE Unset]
    /\ fs \in PathFileSystems
    /\ _config_loader = None
    /\ _config = None
    /\ nextId = 1
    /\ lastOp = NoOp
    /\ InitRest

NextPath ==
    \/ \E a \in PathArgValues : GetConfig(a)
    \/ \E a \in PathArgValues : GetConfigLoader(a)
    \/ ResetConfig

SpecPath == InitPath /\ [][NextPath]_vars

\* Whether the last call constructed the registry's loader.
LoaderBuiltByLastOp ==
    \/ lastOp.name = "get_config_loader" /\ lastOp.status = "ok" /\ lastOp.built = 1
    \/ lastOp.name = "get_config" /\ lastOp.status = "ok" /\ lastOp.built = 2

\* Whether the registry's loader has read the file at path p: it is the
\* loader's file, the loader's file mapping is that file's document, and a
\* snapshot built with it has the level the file declares (the default level
\* when the file is absent).
LoaderRead(p) ==
    /\ _config_loader._config_file = p
    /\ _config_loader._yaml_config = FileAt(fs, p).doc
    /\ lastOp.name = "get_config" =>
          _config.logging.level =
             IF FileAt(fs, p).kind = "doc" THEN VStr(LevelAt(p)) ELSE VStr(S_INFO)

V1 == <<"v", "1">>
V2 == <<"v", "2">>

\* {cache: {ttl: 2}}: caching enabled, entries live two seconds by default.
DocCacheTtl == [cache |-> [ttl |-> VInt(2)]]

\* {cache: {enabled: false, ttl: 2}}
DocCacheDisabled == [cache |-> [enabled |-> VBool(FALSE), ttl |-> VInt(2)]]

\* The contents of config.yaml.
CacheFiles == {YamlFile(DocCacheTtl), YamlFile(DocCacheDisabled)}

\* The keys, values and ttl arguments of the calls.
CacheKeys == {"k1", "k2"}
CacheValues == {V1, V2}
CacheTtls == {NoTtl, Ttl(0), Ttl(1)}

InitCache ==
    /\ env = [v \in EnvVars |-> Unset]
    /\ \E file \in CacheFiles :
          fs = [p \in Paths |-> IF p = DEFAULT_CONFIG_FILE THEN file ELSE NoFile]
    /\ _config_loader = None
    /\ _config = None
    /\ nextId = 1
    /\ lastOp = NoOp
    /\ InitRest

\* The process creates one manager and calls it.
NextCache ==
    \/ managers = <<>> /\ CreateCacheManager
    \/ \E key \in CacheKeys : CacheGet(1, key)
    \/ \E key \in CacheKeys, value \in CacheValues, ttl \in CacheTtls :
          CacheSet(1, key, value, ttl)
    \/ \E key \in CacheKeys : CacheDelete(1, key)
    \/ CacheClear(1)
    \/ Tick

SpecCache == InitCache /\ [][NextCache]_vars


(***************************************************************************)
(* Claims on the cache                                                     *)
(***************************************************************************)
\* The entry store of the i-th manager's backend.
Store(i) == managers[i]._backend._cache

\* Whether the i-th manager's snapshot enables caching.
Enabled(i) == managers[i]._config.cache.enabled = VBool(TRUE)

\* The seconds that a set call with argument ttl on the i-th manager asks for.
SecondsOf(i, ttl) == IF ttl.set THEN ttl.i ELSE managers[i]._config.cache.ttl.i

\* Whether the last call was a set(key, ...) that stored an entry.
LastStored(key) ==
    lastOp.name = "set" /\ lastOp.status = "ok" /\ lastOp.log = "set" /\ lastOp.arg.key = key

\* What a get(key) step does on an entry that expires at e: a hit with value v
\* that leaves the store alone when the clock is not past e, else a miss that
\* removes the entry of key and no other.
GetStepOn(key, v, e) ==
    IF now <= e
    THEN lastOp'.value = Str(v) /\ managers' = managers
    ELSE /\ lastOp'.value = Unset
         /\ key \notin DOMAIN Store(1)'
         /\ \A k \in DOMAIN Store(1) \ {key} :
               k \in DOMAIN Store(1)' /\ Store(1)'[k] = Store(1)[k]

\* C13: a get(k) that follows set(k, v, ttl) made at t0, any time having
\* passed in between, is a hit with v that leaves the entry when the clock is
\* at most t0 + ttl and a miss that removes the entry when it is later; so is
\* every get of a stored key, by the entry's expiry; a delete(k) that follows
\* a get(k) that missed returns false; an entry leaves the store only in a
\* get of its key after its expiry, a delete or a clear, never in a step of
\* the clock.
C13_LazyExpiry ==
    [][Len(managers) >= 1 =>
        /\ \A k \in CacheKeys :
              (LastStored(k) /\ CacheGet(1, k))
                  => GetStepOn(k, lastOp.arg.value, lastOp.at + SecondsOf(1, lastOp.arg.ttl))
        /\ \A k \in CacheKeys :
              (Enabled(1) /\ k \in DOMAIN Store(1) /\ CacheGet(1, k))
                  => GetStepOn(k, Store(1)[k].value, Store(1)[k].expires_at)
        /\ \A k \in CacheKeys :
              (lastOp.name = "get" /\ lastOp.arg.key = k /\ lastOp.value = Unset
                 /\ CacheDelete(1, k))
                  => lastOp'.value = VBool(FALSE)
        /\ Tick => managers' = managers
        /\ \A k \in DOMAIN Store(1) :
              k \notin DOMAIN Store(1)'
                  => \/ lastOp'.name = "get" /\ lastOp'.arg.key = k
                           /\ now > Store(1)[k].expires_at
                     \/ lastOp'.name = "delete" /\ lastOp'.arg.key = k
                     \/ lastOp'.name = "clear"]_vars

\* C13 witness: a get that found its entry expired and removed it, while the
\* other key's entry, expired too, is still in the store.
C13_Witness ==
    /\ lastOp.name = "get" /\ lastOp.log = "expired" /\ lastOp.value = Unset
    /\ lastOp.arg.key = "k1" /\ "k1" \notin DOMAIN Store(1)
    /\ "k2" \in DOMAIN Store(1) /\ Store(1)["k2"].expires_at < now

\* Whether the i-th manager holds for key an entry whose expiry has not passed.
Live(i, key) ==
    Enabled(i) /\ key \in DOMAIN Store(i) /\ now <= Store(i)[key].expires_at

\* C14: a delete(k) returns true exactly when a live (unexpired) entry of k
\* is in the store at the call, and leaves no entry of k; for an entry whose
\* expiry has passed it returns false, as for an absent key.
C14_DeleteTrueIffLiveEntry ==
    [][Len(managers) >= 1 =>
        \A k \in CacheKeys :
            CacheDelete(1, k)
                => /\ lastOp'.value = VBool(Live(1, k))
                   /\ k \notin DOMAIN Store(1)']_vars

\* Whether the last call was made on the i-th manager.
LastOn(i) ==
    lastOp.name \in {"get", "set", "delete", "clear", "is_enabled"} /\ lastOp.arg.manager = i

\* C15: for every manager whose snapshot has cache.enabled = false, the entry
\* store is empty in every state, a get on it has returned a miss, a delete
\* false, and a set or a clear has returned without an effect.
C15_DisabledManagerIsInert ==
    \A i \in 1..Len(managers) :
        managers[i]._config.cache.enabled = VBool(FALSE) =>
            /\ Store(i) = EmptyDict
            /\ LastOn(i) =>
                  /\ lastOp.status = "ok"
                  /\ lastOp.name = "get" => lastOp.value = Unset
                  /\ lastOp.name = "delete" => lastOp.value = VBool(FALSE)
                  /\ lastOp.name \in {"set", "clear"} => lastOp.value = None

\* C15 witness: a set with an explicit ttl on a disabled manager that left the
\* store empty.
C15_Witness ==
    /\ Len(managers) = 1
    /\ managers[1]._config.cache.enabled = VBool(FALSE)
    /\ lastOp.name = "set" /\ lastOp.arg = CacheArg(1, "k1", V1, Ttl(1))
    /\ lastOp.log = "disabled"
    /\ Store(1) = EmptyDict

\* What a set(key, value, ttl) at time t0 on the i-th manager stores.
EntryOf(i, value, ttl, t0) == [value |-> value, expires_at |-> t0 + SecondsOf(i, ttl)]

\* C16: after a set(k, v, ttl) at time t0 on an enabled manager, and until the
\* next call, the store holds for k the value v with expiry t0 + ttl when a
\* ttl was passed (0 included) and t0 + cache.ttl of the manager's snapshot
\* when none was; the set step puts that entry in the place of whatever entry
\* k had, value and expiry, and leaves the other keys' entries alone.
C16_SetStoresWithTtl ==
    /\ [](\A i \in 1..Len(managers) :
            (Enabled(i) /\ lastOp.name = "set" /\ lastOp.arg.manager = i) =>
                /\ lastOp.status = "ok"
                /\ lastOp.arg.key \in DOMAIN Store(i)
                /\ Store(i)[lastOp.arg.key].value = lastOp.arg.value
                /\ lastOp.arg.ttl.set
                      => Store(i)[lastOp.arg.key].expires_at = lastOp.at + lastOp.arg.ttl.i
                /\ ~lastOp.arg.ttl.set
                      => Store(i)[lastOp.arg.key].expires_at
                            = lastOp.at + managers[i]._config.cache.ttl.i)
    /\ [][Len(managers) >= 1 /\ Enabled(1) =>
            \A k \in CacheKeys, v \in CacheValues, ttl \in CacheTtls :
                CacheSet(1, k, v, ttl)
                    => Store(1)' = [j \in DOMAIN Store(1) \cup {k} |->
                                      IF j = k THEN EntryOf(1, v, ttl, now)
                                      ELSE Store(1)[j]]]_vars

\* C16 witness: a set with ttl 0 made after the clock moved, on a manager whose
\* default ttl is 2: the entry expires at the time of the call.
C16_Witness ==
    /\ Len(managers) = 1 /\ Enabled(1)
    /\ managers[1]._config.cache.ttl = VInt(2)
    /\ lastOp.name = "set" /\ lastOp.arg = CacheArg(1, "k1", V2, Ttl(0))
    /\ lastOp.at >= 1
    /\ Store(1)["k1"] = [value |-> V2, expires_at |-> lastOp.at]


(***************************************************************************)
(* SpecSelect: create_cache_manager under every file below                 *)
(***************************************************************************)
S_Memory      == <<"M", "e", "m", "o", "r", "y">>
S_MEMORY      == <<"M", "E", "M", "O", "R", "Y">>
S_memory_     == <<"m", "e", "m", "o", "r", "y", " ">>
S_redis       == <<"r", "e", "d", "i", "s">>
S_debug       == <<"d", "e", "b", "u", "g">>
S_Warning     == <<"W", "a", "r", "n", "i", "n", "g">>
S_verbose     == <<"v", "e", "r", "b", "o", "s", "e">>
S_info        == <<"i", "n", "f", "o">>
S_warning     == <<"w", "a", "r", "n", "i", "n", "g">>

\* The values of cache.backend in the file: names of the memory backend in
\* three casings, other names, the empty name, and a number.
SelectBackends ==
    {VStr(S_memory), VStr(S_Memory), VStr(S_MEMORY), VStr(S_memory_), VStr(S_redis),
     VStr(<<>>), VInt(5)}

\* The values of logging.level in the file: level names in three casings, and
\* a name that is no level.
SelectLevels == {VStr(S_INFO), VStr(S_debug), VStr(S_Warning), VStr(S_verbose)}

\* {logging: {level: ...}, cache: {enabled: ..., backend: ...}}
DocSelect(level, enabled, backend) ==
    [logging |-> [level |-> level],
     cache   |-> [enabled |-> VBool(enabled), backend |-> backend]]

\* The contents of config.yaml: no file, or one of the documents.
SelectFiles ==
    {NoFile} \cup
    {YamlFile(DocSelect(level, enabled, backend)) :
        level \in SelectLevels, enabled \in BOOLEAN, backend \in SelectBackends}

InitSelect ==
    /\ env = [v \in EnvVars |-> Unset]
    /\ \E file \in SelectFiles :
          fs = [p \in Paths |-> IF p = DEFAULT_CONFIG_FILE THEN file ELSE NoFile]
    /\ _config_loader = None
    /\ _config = None
    /\ nextId = 1
    /\ lastOp = NoOp
    /\ InitRest

NextSelect ==
    \/ CreateCacheManager
    \/ GetConfig(Unset)
    \/ ResetConfig

SpecSelect == InitSelect /\ [][NextSelect]_vars

\* Whether the snapshot c names the memory backend, in whatever casing.
NamesMemory(c) == \E x \in Casings(S_memory) : c.cache.backend = VStr(x)

\* Whether the snapshot c names a level of the logging module, in whatever
\* casing.
NamesLevel(c) ==
    \E x \in Casings(S_info) \cup Casings(S_debug) \cup Casings(S_warning) :
        c.logging.level = VStr(x)

\* What a create_cache_manager step does when the construction succeeds: a
\* manager for snapshot c, with an empty store, is produced; and when it fails:
\* an exception and no manager.
Constructs(c) ==
    /\ lastOp'.status = "ok"
    /\ managers' = Append(managers, [_config |-> c, _backend |-> [_cache |-> EmptyDict]])
FailsToConstruct ==
    /\ lastOp'.status \in {"ValueError", "AttributeError"}
    /\ managers' = managers

DocCacheShort == [cache |-> [ttl |-> VInt(1)]]

\* The contents config.yaml takes.
LifetimeFiles == {YamlFile(DocCacheTtl), YamlFile(DocCacheShort), YamlFile(DocCacheDisabled)}

\* The assignments tried on a snapshot: config.<section>.<key> = value.
FieldAssignments ==
    {<<"cache", "enabled", VBool(FALSE)>>, <<"cache", "enabled", VBool(TRUE)>>,
     <<"cache", "ttl", VInt(9)>>, <<"logging", "level", VStr(S_DEBUG)>>}

\* The assignments tried on a snapshot: config.<section> = value.
SectionAssignments ==
    {<<"cache", [enabled |-> VBool(FALSE), ttl |-> VInt(9), backend |-> VStr(S_memory)]>>,
     <<"debug", [enabled |-> VBool(TRUE), profiling |-> VBool(TRUE)]>>}

InitLifetime ==
    /\ env = [v \in EnvVars |-> Unset]
    /\ \E file \in LifetimeFiles :
          fs = [p \in Paths |-> IF p = DEFAULT_CONFIG_FILE THEN file ELSE NoFile]
    /\ _config_loader = None
    /\ _config = None
    /\ nextId = 1
    /\ lastOp = NoOp
    /\ InitRest

NextLifetime ==
    \/ CreateCacheManager
    \/ GetConfig(Unset)
    \/ ResetConfig
    \/ \E file \in LifetimeFiles : WriteFile(DEFAULT_CONFIG_FILE, file)
    \/ \E i \in 1..MaxManagers : CacheGet(i, "k1")
    \/ \E i \in 1..MaxManagers : CacheSet(i, "k1", V1, NoTtl)
    \/ \E i \in 1..MaxManagers : CacheDelete(i, "k1")
    \/ \E i \in 1..MaxManagers : CacheClear(i)
    \/ \E i \in 1..MaxManagers : CacheIsEnabled(i)
    \/ \E who \in 0..MaxManagers, a \in FieldAssignments :
          SetSectionField(who, a[1], a[2], a[3])
    \/ \E who \in 0..MaxManagers, a \in SectionAssignments : SetSection(who, a[1], a[2])

SpecLifetime == InitLifetime /\ [][NextLifetime]_vars

\* The snapshots that the registry and the managers refer to.
Snapshots ==
    (IF _config # None THEN {_config} ELSE {}) \cup
    {managers[i]._config : i \in 1..Len(managers)}

\* C12: an assignment to a field of a section of a snapshot, or to a section
\* of a snapshot, raises FrozenInstanceError and leaves the registry and every
\* manager as they were; over every step (get_config, reset_config,
\* create_cache_manager, cache get/set/delete/clear, a rewritten file), a
\* snapshot that is still referred to after the step has the fields it had
\* before, and a manager keeps its snapshot.
C12_SnapshotsAreImmutable ==
    [][/\ \A who \in 0..MaxManagers :
            ((\E a \in FieldAssignments : SetSectionField(who, a[1], a[2], a[3]))
               \/ (\E a \in SectionAssignments : SetSection(who, a[1], a[2])))
                => /\ lastOp'.status = "FrozenInstanceError"
                   /\ _config' = _config
                   /\ managers' = managers
       /\ \A c \in Snapshots : \A d \in Snapshots' : d.id = c.id => d = c
       /\ \A i \in 1..Len(managers) : managers'[i]._config = managers[i]._config]_vars

\* C12 witness: config.cache.ttl = 9 tried on the snapshot of the first
\* manager, which the registry holds too, raised and left the ttl at 2.
C12_Witness ==
    /\ lastOp.name = "setattr" /\ lastOp.status = "FrozenInstanceError"
    /\ lastOp.arg.manager = 1 /\ lastOp.arg.key = "ttl"
    /\ managers[1]._config.cache.ttl = VInt(2)
    /\ _config = managers[1]._config

\* Whether managers i and j were made from one snapshot that enables caching.
SameEnabledSnapshot(i, j) ==
    managers[i]._config = managers[j]._config /\ Enabled(i)

\* C19 as stated: a get(k) on a manager that follows a set(k, v) made on
\* another manager of the same enabled snapshot returns v.
C19_EntrySeenThroughOtherManager ==
    [][\A i \in 1..Len(managers), j \in 1..Len(managers) :
          (/\ i # j /\ SameEnabledSnapshot(i, j)
           /\ LastStored("k1") /\ lastOp.arg.manager = i
           /\ CacheGet(j, "k1"))
              => lastOp'.value = Str(lastOp.arg.value)]_vars

\* C19 amended: each manager has an entry store of its own: a set, get, delete
\* or clear on one manager leaves the store of every other manager as it was,
\* a manager's store is empty when create_cache_manager returns it, and a
\* get(k) on a manager whose own store has no entry of k is a miss, whatever
\* the other managers of the same snapshot hold.
C19_StorePerManager ==
    [][/\ \A j \in 1..Len(managers) :
            (lastOp'.name \in {"get", "set", "delete", "clear"} /\ lastOp' # lastOp
               /\ lastOp'.arg.manager # j)
                => Store(j)' = Store(j)
       /\ Len(managers') > Len(managers)
            => managers'[Len(managers')]._backend._cache = EmptyDict
       /\ \A j \in 1..Len(managers) :
            (CacheGet(j, "k1") /\ "k1" \notin DOMAIN Store(j))
                => lastOp'.value = Unset]_vars

\* C19 witness: with two managers of one enabled snapshot, get(k1) on the
\* second was a miss while the first holds an unexpired entry of k1.
C19_Witness ==
    /\ Len(managers) = 2 /\ SameEnabledSnapshot(1, 2)
    /\ lastOp.name = "get" /\ lastOp.arg.manager = 2 /\ lastOp.value = Unset
    /\ Live(1, "k1")
    /\ "k1" \notin DOMAIN Store(2)

\* C20: is_enabled returns cache.enabled of the manager's snapshot, and a set
\* without ttl stores with cache.ttl of the manager's snapshot, in every state,
\* whatever the registry holds by then; the snapshot of a manager is the one
\* get_config returned in the create_cache_manager call that made it, and no
\* step changes it.
C20_OneGatingStatePerManager ==
    /\ [](\A i \in 1..Len(managers) :
            /\ (lastOp.name = "is_enabled" /\ lastOp.arg.manager = i)
                  => lastOp.value = managers[i]._config.cache.enabled
            /\ (lastOp.name = "set" /\ lastOp.arg.manager = i /\ ~lastOp.arg.ttl.set)
                  => IF managers[i]._config.cache.enabled = VBool(TRUE)
                     THEN /\ lastOp.arg.key \in DOMAIN Store(i)
                          /\ Store(i)[lastOp.arg.key].expires_at
                                = lastOp.at + managers[i]._config.cache.ttl.i
                     ELSE Store(i) = EmptyDict)
    /\ [][/\ \A i \in 1..Len(managers) : managers'[i]._config = managers[i]._config
          /\ Len(managers') > Len(managers)
                => /\ lastOp'.name = "create_cache_manager"
                   /\ managers'[Len(managers')]._config = _config'
                   /\ lastOp'.value.id = _config'.id]_vars

\* C20 witness: is_enabled of the first manager returned true after a
\* reset_config and a get_config that resolved cache.enabled = false and
\* another ttl into a new snapshot.
C20_Witness ==
    /\ lastOp.name = "is_enabled" /\ lastOp.arg.manager = 1
    /\ lastOp.value = VBool(TRUE)
    /\ _config # None /\ _config.id # managers[1]._config.id
    /\ _config.cache.enabled = VBool(FALSE)
    /\ managers[1]._config.cache.ttl = VInt(1) /\ _config.cache.ttl = VInt(2)


(***************************************************************************)
(* SpecThreads: threads that call get_config on an empty registry, their   *)
(* steps interleaved                                                       *)
(***************************************************************************)
\* The contents of config.yaml.
ThreadFiles == {NoFile, MalformedFile, YamlFile(DocPartial), YamlFile(DocUnknownField)}

InitThreads ==
    /\ env = [v \in EnvVars |-> Unset]
    /\ \E file \in ThreadFiles :
          fs = [p \in Paths |-> IF p = DEFAULT_CONFIG_FILE THEN file ELSE NoFile]
    /\ _config_loader = None
    /\ _config = None
    /\ nextId = 1
    /\ lastOp = NoOp
    /\ InitRest

NextThreads ==
    \E t \in ThreadIds :
        \/ \E a \in PathArgs : ThreadCall(t, a)
        \/ ThreadCheckConfig(t)
        \/ ThreadCheckLoader(t)
        \/ ThreadConstruct(t)
        \/ ThreadStoreLoader(t)
        \/ ThreadReturnLoader(t)
        \/ ThreadLoad(t)
        \/ ThreadStoreConfig(t)
        \/ ThreadReturn(t)

SpecThreads == InitThreads /\ [][NextThreads]_vars

\* Whether the last get_config call of thread t has returned a snapshot.
Returned(t) == threads[t].pc = "done" /\ threads[t].status = "ok"

\* C18: the get_config calls of the threads that have returned have all
\* returned one and the same Config object, and it is the one the registry
\* holds.
C18_OneSnapshotVisible ==
    \A t \in ThreadIds, u \in ThreadIds :
        (Returned(t) /\ Returned(u))
            => threads[t].ret = threads[u].ret /\ threads[t].ret = _config

\* The logging.level of a snapshot resolved from the file at path p as the
\* file system holds it: the level the file declares, the default level when
\* no file is there.
LevelResolvedFrom(p) ==
    IF FileAt(fs, p).kind = "doc" THEN VStr(LevelAt(p)) ELSE VStr(S_INFO)

\* Whether the last call was a get_config that found no snapshot in the
\* registry and returned the one it built.
BuiltByLastGetConfig ==
    lastOp.name = "get_config" /\ lastOp.status = "ok" /\ lastOp.built >= 1

\* C21: a get_config(path) call made while the registry holds no snapshot
\* returns a snapshot resolved from the file that the path precedence selects
\* for the argument of that call, whatever get_config_loader and reset_config
\* calls came before it.
C21_FirstGetConfigUsesItsArgument ==
    BuiltByLastGetConfig =>
        /\ lastOp.value = _config
        /\ _config.logging.level =
              LevelResolvedFrom(GetConfigFilePath(lastOp.arg, env))

\* C22: load_config leaves the loader's file mapping and environment mapping
\* exactly as they were loaded: a loader that the registry holds has the
\* mapping its file gave and the mapping the environment gave, before and
\* after every get_config call that ran load_config on it, for every file and
\* environment, those that supply keys of one section included.
C22_LoadConfigLeavesMappings ==
    _config_loader # None =>
        /\ _config_loader._yaml_config =
              LoadYamlConfig(_config_loader._config_file, fs).value
        /\ _config_loader._env_config = LoadEnvConfig(env).value

====
